---------------------------- MODULE Spec2Model ----------------------------
(***************************************************************************)
(* A model of the F1 random-walk script, examples/f1_track_random_walk.py: *)
(*   getSectorDistances  the sector boundary estimator,                    *)
(*   getSectorsForTel    the sector labeler,                               *)
(*   getSectorDict       the selection validation and the sector cut,      *)
(*   __main__            the track composer (rotate, translate, append).   *)
(*                                                                         *)
(* Numbers.  The script computes in IEEE doubles.  A double is modelled as *)
(* an exact fraction [n |-> numerator, d |-> denominator] in lowest terms  *)
(* with d > 0, and NaN as the fraction with d = 0.  Every input the model  *)
(* draws is an integer, and the composer's sectors start and end with      *)
(* axis-parallel segments, so that norms, angles, sines and cosines are    *)
(* exact; rounding in the last place is outside the model.                 *)
(***************************************************************************)
EXTENDS Integers, Sequences, FiniteSets, TLC

VARIABLES
    \* ---- getSectorsForTel
    lpc,              \* "call" before the call, "returned" after it
    tel_Distance,     \* tel['Distance'], a sequence of doubles
    sec12, sec23,     \* the two boundaries handed to the labeler
    sectors,          \* the returned array of labels
    \* ---- getSectorDistances
    dpc,              \* "call", "returned", or "raised" (an exception left the function)
    session_laps,     \* session.laps, in session order
    debugger,         \* what the operator answers at the pdb prompt
    sec12s, sec23s,   \* the two buffers of per-lap boundary distances
    dist_ret,         \* the returned pair (sec12, sec23)
    \* ---- getSectorDict
    gpc,              \* "call", "returned", or "raised"
    schedule,         \* the season's events; each is its qualifying session's laps
    limit_sectors,
    selected_events,  \* None or an array
    selected_sectors, \* None or an array
    sector_dict,      \* the returned dictionary
    printed,          \* what the function printed, in order
    \* ---- __main__: the track composer
    mpc,              \* "start", "order", "compose", "render", "save", "done", "raised"
    sector_orders,    \* the random order of the sectors, split into tracks
    track,            \* the position of the outer loop in sector_orders, from 1
    i,                \* the position of the inner loop in the track, from 0
    x_all, y_all, c,  \* the composite track and its per-point labels
    x_new, y_new,     \* the new sector, its first point moved to the origin
    old_vector, new_vector,
    angle_rad,        \* in quarter turns: 1 is pi/2, 2 is pi, -1 is -pi/2
    cos, sin,
    x_rotated, y_rotated,
    figures,          \* the figures drawn so far
    \* ---- make_tables.py: the command line and SQLGenerator
    spc,              \* "parse", "construct", "create", "initiate", "populate", "done", "raised"
    argv,             \* the options typed on the command line
    args,             \* the namespace parse_args() returns
    environ,          \* os.environ: the value of f1_cache, if it is set
    folders,          \* the folders that exist
    mkdir_ok,         \* may the process create a folder in the current directory
    server,           \* the PostgreSQL server: is it up, its databases, may the user create
                      \* one, do the databases it has before the run hold the tables
    db_name,          \* self.db_name
    cache_dir,        \* self.cache_dir, if it is set
    cache_enabled,    \* has fastf1.Cache.enable_cache been called
    create_ret,       \* what createDatabase returned, if it was called and returned
    connections,      \* the database of every pg2.connect(database=...), in order
    tables,           \* the tables created, in order
    populated,        \* the tables populated, in order
    table_index,      \* the position in initiateAllTables or populateAllTables
    error,            \* the exception that ended the run, if one did
    sql_printed,      \* what the run printed, in order
    \* ---- fastf1_tools.py: formattedLapTelem
    tpc,              \* "call" before the call, "returned" after it
    race_laps,        \* session.laps of the session handed to formattedLapTelem
    all_drivers,      \* the 'Tla' values of fastf1.api.driver_info
    drivers,          \* the argument drivers (None or a list), then the local variable
    telem_ret         \* what formattedLapTelem returned

labelVars == <<lpc, tel_Distance, sec12, sec23, sectors>>

distVars == <<dpc, session_laps, debugger, sec12s, sec23s, dist_ret>>

dictVars == <<gpc, schedule, limit_sectors, selected_events, selected_sectors,
              sector_dict, printed>>

mainVars == <<mpc, sector_orders, track, i, x_all, y_all, c, x_new, y_new,
              old_vector, new_vector, angle_rad, cos, sin, x_rotated, y_rotated, figures>>

sqlVars == <<spc, argv, args, environ, folders, mkdir_ok, server, db_name, cache_dir,
             cache_enabled, create_ret, connections, tables, populated, table_index,
             error, sql_printed>>

telemVars == <<tpc, race_laps, all_drivers, drivers, telem_ret>>

----------------------------------------------------------------------------
(* Doubles *)

Abs(v) == IF v < 0 THEN -v ELSE v

RECURSIVE Gcd(_, _)
Gcd(a, b) == IF b = 0 THEN a ELSE Gcd(b, a % b)

NaN == [n |-> 0, d |-> 0]

F(v) == [n |-> v, d |-> 1]

IsNaN(a) == a.d = 0

\* the fraction num/den brought to lowest terms, den /= 0
Frac(num, den) ==
    LET g == Gcd(Abs(num), Abs(den))
        s == IF den < 0 THEN -1 ELSE 1
    IN  [n |-> s * (num \div g), d |-> s * (den \div g)]

FAdd(a, b) == IF IsNaN(a) \/ IsNaN(b) THEN NaN
              ELSE Frac(a.n * b.d + b.n * a.d, a.d * b.d)

FSub(a, b) == IF IsNaN(a) \/ IsNaN(b) THEN NaN
              ELSE Frac(a.n * b.d - b.n * a.d, a.d * b.d)

\* a / b; the only division by zero the script can reach is 0/0
FDiv(a, b) == IF IsNaN(a) \/ IsNaN(b) \/ b.n = 0 THEN NaN
              ELSE Frac(a.n * b.d, a.d * b.n)

FMul(a, b) == IF IsNaN(a) \/ IsNaN(b) THEN NaN
              ELSE Frac(a.n * b.n, a.d * b.d)

\* IEEE comparisons: every comparison with a NaN is false
FLt(a, b) == ~IsNaN(a) /\ ~IsNaN(b) /\ a.n * b.d < b.n * a.d

FGe(a, b) == ~IsNaN(a) /\ ~IsNaN(b) /\ a.n * b.d >= b.n * a.d

FEq(a, b) == ~IsNaN(a) /\ ~IsNaN(b) /\ a.n * b.d = b.n * a.d

\* an optional array argument: Python's None, or an array
None == [some |-> FALSE, arr |-> <<>>]

Some(a) == [some |-> TRUE, arr |-> a]

----------------------------------------------------------------------------
(* Bounds and input sets of the labeler *)

MaxSamples == 4

\* lap distances and boundaries the labeler is tried on
DistanceValues == {0, 500, 1000, 1500, 2000, 2500}

BoundaryValues == {F(v) : v \in DistanceValues} \cup {Frac(12500, 10), Frac(1, 3)}

SeqsUpTo(S, k) == UNION {[1..m -> S] : m \in 0..k}

----------------------------------------------------------------------------
(* getSectorsForTel *)

\* np.zeros(len, dtype=int)
Zeros(len) == [k \in 1..len |-> 0]

\* arr[mask] = value
MaskAssign(arr, mask, value) ==
    [k \in 1..Len(arr) |-> IF mask[k] THEN value ELSE arr[k]]

\* tel['Distance'] < bound
MaskBelow(dist, bound) == [k \in 1..Len(dist) |-> FLt(dist[k], bound)]

\* a comparison that leaves out the sample lying on the boundary
MaskAbove(dist, bound) ==
    [k \in 1..Len(dist) |-> FLt(bound, dist[k])]

\* tel['Distance'] >= bound
MaskAtLeast(dist, bound) == [k \in 1..Len(dist) |-> FGe(dist[k], bound)]

\* np.logical_and(m1, m2)
LogicalAnd(m1, m2) == [k \in 1..Len(m1) |-> m1[k] /\ m2[k]]

\* a labeler that writes the labels 2 and 3 the wrong way round
getSectorsForTelSwapped(dist, s12, s23) ==
    LET s0 == Zeros(Len(dist))
        s1 == MaskAssign(s0, MaskBelow(dist, s12), 1)
        s2 == MaskAssign(s1, LogicalAnd(MaskAtLeast(dist, s12), MaskBelow(dist, s23)), 3)
        s3 == MaskAssign(s2, MaskAtLeast(dist, s23), 2)
    IN  s3

getSectorsForTel(dist, s12, s23) ==
    LET s0 == Zeros(Len(dist))
        s1 == MaskAssign(s0, MaskBelow(dist, s12), 1)
        s2 == MaskAssign(s1, LogicalAnd(MaskAtLeast(dist, s12), MaskBelow(dist, s23)), 2)
        s3 == MaskAssign(s2, MaskAtLeast(dist, s23), 3)
    IN  s3

LabelInit ==
    /\ lpc = "call"
    /\ tel_Distance \in SeqsUpTo({F(v) : v \in DistanceValues}, MaxSamples)
    /\ sec12 \in BoundaryValues
    /\ sec23 \in BoundaryValues
    /\ sectors = <<>>
    \* the other parts of the script stay idle
    /\ dpc = "idle" /\ session_laps = <<>> /\ sec12s = <<>> /\ sec23s = <<>> /\ dist_ret = <<>>
    /\ debugger = "continue"
    /\ gpc = "idle" /\ schedule = <<>> /\ limit_sectors = 0 /\ selected_events = None
    /\ selected_sectors = None /\ sector_dict = <<>> /\ printed = <<>>
    /\ mpc = "idle" /\ sector_orders = <<>> /\ track = 0 /\ i = 0
    /\ x_all = <<>> /\ y_all = <<>> /\ c = <<>> /\ x_new = <<>> /\ y_new = <<>>
    /\ old_vector = <<>> /\ new_vector = <<>> /\ angle_rad = NaN /\ cos = NaN /\ sin = NaN
    /\ x_rotated = <<>> /\ y_rotated = <<>> /\ figures = <<>>
    /\ spc = "idle" /\ argv = <<>> /\ args = <<>> /\ environ = <<>> /\ folders = {}
    /\ mkdir_ok = FALSE /\ server = <<>> /\ db_name = "" /\ cache_dir = <<>>
    /\ cache_enabled = FALSE /\ create_ret = <<>> /\ connections = <<>> /\ tables = <<>>
    /\ populated = <<>> /\ table_index = 0 /\ error = "" /\ sql_printed = <<>>
    /\ tpc = "idle" /\ race_laps = <<>> /\ all_drivers = <<>> /\ drivers = None
    /\ telem_ret = <<>>

CallGetSectorsForTel ==
    /\ lpc = "call"
    /\ sectors' = getSectorsForTel(tel_Distance, sec12, sec23)
    /\ lpc' = "returned"
    /\ UNCHANGED <<tel_Distance, sec12, sec23, distVars, dictVars, mainVars, sqlVars, telemVars>>

----------------------------------------------------------------------------
(* getSectorDistances *)

\* the slice [0:10] of the fastest laps, and the length of the two buffers
NFastest == 10

BufLen == 10

\* the most laps a session holds
MaxLaps == 11

\* a missing timestamp (pandas NaT)
NaT == -1

Sample(t, dist, x, y) == [SessionTime |-> t, Distance |-> F(dist), X |-> x, Y |-> y]

\* The laps a session is made of.  In each, Distance grows with SessionTime
\* and the sector-1 timestamp precedes the sector-2 timestamp.
LapA == [LapTime |-> 80, Sector1SessionTime |-> 131, Sector2SessionTime |-> 162,
         raises |-> FALSE,
         tel |-> <<Sample(100,    0, 0, 0), Sample(110,  300, 3, 0), Sample(120,  500, 3, 2),
                   Sample(130,  800, 6, 2), Sample(140, 1100, 6, 5), Sample(150, 1300, 4, 5),
                   Sample(160, 1500, 4, 7), Sample(170, 1800, 1, 7), Sample(180, 2100, 1, 4)>>]

LapB == [LapTime |-> 82, Sector1SessionTime |-> 245, Sector2SessionTime |-> 288,
         raises |-> FALSE,
         tel |-> <<Sample(200,    0, 5, 5), Sample(210,  300, 5, 8), Sample(220,  520, 7, 9),
                   Sample(230,  720, 9, 9), Sample(240, 1020, 9, 6), Sample(250, 1220, 9, 4),
                   Sample(260, 1440, 7, 3), Sample(270, 1640, 5, 3), Sample(280, 1840, 3, 3),
                   Sample(290, 2040, 3, 1), Sample(300, 2240, 1, 1), Sample(310, 2460, 0, 3),
                   Sample(320, 2660, 0, 5), Sample(330, 2760, 0, 6)>>]

\* a lap that stands still over two samples at the start of its second sector
LapC == [LapTime |-> 84, Sector1SessionTime |-> 521, Sector2SessionTime |-> 549,
         raises |-> FALSE,
         tel |-> <<Sample(500,    0, -2, 0), Sample(510,  200, -2, -2), Sample(520,  400, -4, -2),
                   Sample(530,  401, -4, -2), Sample(540,  700, -4, -5), Sample(550, 1000, -1, -5),
                   Sample(560, 1200, -1, -3), Sample(570, 1400, 1, -3)>>]

\* a lap round a unit square that passes its starting corner again
LapS == [LapTime |-> 85, Sector1SessionTime |-> 619, Sector2SessionTime |-> 641,
         raises |-> FALSE,
         tel |-> <<Sample(600,   0, 0, 0), Sample(610, 100, 1, 0), Sample(620, 200, 1, 1),
                   Sample(630, 300, 0, 1), Sample(640, 400, 0, 0), Sample(650, 500, 0, 1)>>]

\* a lap whose sector-2 timestamp is missing: dropna removes it
LapM == [LapTime |-> 79, Sector1SessionTime |-> 131, Sector2SessionTime |-> NaT,
         raises |-> FALSE,
         tel |-> <<Sample(100,    0, 0, 0), Sample(110,  310, 3, 0), Sample(120,  510, 3, 2),
                   Sample(130,  810, 6, 2), Sample(140, 1110, 6, 5), Sample(150, 1310, 4, 5),
                   Sample(160, 1510, 4, 7), Sample(170, 1810, 1, 7), Sample(180, 2110, 1, 4)>>]

\* a lap whose get_telemetry() raises
LapE == [LapTime |-> 83, Sector1SessionTime |-> 412, Sector2SessionTime |-> 431,
         raises |-> TRUE,
         tel |-> <<>>]

Repeat(x, k) == [j \in 1..k |-> x]

\* a session with the given number of laps of each kind, in session order
SessionOf(nE, nB, nM, nA) ==
    Repeat(LapE, nE) \o Repeat(LapB, nB) \o Repeat(LapM, nM) \o Repeat(LapA, nA)

Sessions ==
    {SessionOf(nE, nB, nM, nA) :
        <<nE, nB, nM, nA>> \in {q \in (0..MaxLaps) \X (0..MaxLaps) \X (0..MaxLaps) \X (0..MaxLaps) :
                                    q[1] + q[2] + q[3] + q[4] <= MaxLaps}}

\* laps.dropna(subset=['Sector1SessionTime','Sector2SessionTime'])
DropNa(laps) ==
    SelectSeq(laps, LAMBDA lap : lap.Sector1SessionTime # NaT /\ lap.Sector2SessionTime # NaT)

\* laps.sort_values('LapTime', ascending=True)
RECURSIVE InsertByLapTime(_, _)
InsertByLapTime(sorted, lap) ==
    IF sorted = <<>> THEN <<lap>>
    ELSE IF lap.LapTime < Head(sorted).LapTime THEN <<lap>> \o sorted
    ELSE <<Head(sorted)>> \o InsertByLapTime(Tail(sorted), lap)

RECURSIVE SortByLapTime(_)
SortByLapTime(laps) ==
    IF laps = <<>> THEN <<>>
    ELSE InsertByLapTime(SortByLapTime(SubSeq(laps, 1, Len(laps) - 1)), laps[Len(laps)])

\* laps[0:count]
Take(laps, count) == SubSeq(laps, 1, IF Len(laps) < count THEN Len(laps) ELSE count)

SelectedLaps(laps) == Take(SortByLapTime(DropNa(laps)), NFastest)

\* np.argmin(abs(tel['SessionTime'] - stamp)): the first index of the least value
ArgMinAbs(tel, stamp) ==
    CHOOSE k \in 1..Len(tel) :
        /\ \A j \in 1..Len(tel) :
              Abs(tel[k].SessionTime - stamp) <= Abs(tel[j].SessionTime - stamp)
        /\ \A j \in 1..(k - 1) :
              Abs(tel[j].SessionTime - stamp) > Abs(tel[k].SessionTime - stamp)

\* tel['Distance'].iloc[np.argmin(abs(tel['SessionTime'] - stamp))]
NearestDistance(lap, stamp) == lap.tel[ArgMinAbs(lap.tel, stamp)].Distance

\* the try block fails when get_telemetry raises or the telemetry is empty
LapFails(lap) == lap.raises \/ lap.tel = <<>>

\* The loop over the selected laps from position index on (1-based); dbg is the
\* operator's answer at the pdb prompt of the except block.  The result is the
\* two buffers and whether the debugger's quit left the function.
RECURSIVE FillBuffers(_, _, _, _, _)
FillBuffers(laps, index, b12, b23, dbg) ==
    IF index > Len(laps) THEN [sec12s |-> b12, sec23s |-> b23, raised |-> FALSE]
    ELSE IF LapFails(laps[index])
         THEN IF dbg = "quit"
              THEN [sec12s |-> b12, sec23s |-> b23, raised |-> TRUE]
              ELSE FillBuffers(laps, index + 1, b12, b23, dbg)
         ELSE FillBuffers(laps, index + 1,
                 [b12 EXCEPT ![index] = NearestDistance(laps[index], laps[index].Sector1SessionTime)],
                 [b23 EXCEPT ![index] = NearestDistance(laps[index], laps[index].Sector2SessionTime)],
                 dbg)

RECURSIVE FSum(_)
FSum(arr) == IF arr = <<>> THEN F(0) ELSE FAdd(Head(arr), FSum(Tail(arr)))

\* np.mean(arr)
Mean(arr) == FDiv(FSum(arr), F(Len(arr)))

\* getSectorDistances(session): the buffers, whether an exception left the
\* function, and the returned pair
getSectorDistances(laps_of_session, dbg) ==
    LET laps == SelectedLaps(laps_of_session)
        out  == FillBuffers(laps, 1, Repeat(F(0), BufLen), Repeat(F(0), BufLen), dbg)
    IN  [sec12s |-> out.sec12s, sec23s |-> out.sec23s, raised |-> out.raised,
         ret |-> IF out.raised THEN <<>> ELSE <<Mean(out.sec12s), Mean(out.sec23s)>>]

DistInit ==
    /\ dpc = "call"
    /\ session_laps \in Sessions
    /\ debugger \in {"continue", "quit"}
    /\ sec12s = <<>>
    /\ sec23s = <<>>
    /\ dist_ret = <<>>
    \* the other parts of the script stay idle
    /\ lpc = "idle" /\ tel_Distance = <<>> /\ sec12 = NaN /\ sec23 = NaN /\ sectors = <<>>
    /\ gpc = "idle" /\ schedule = <<>> /\ limit_sectors = 0 /\ selected_events = None
    /\ selected_sectors = None /\ sector_dict = <<>> /\ printed = <<>>
    /\ mpc = "idle" /\ sector_orders = <<>> /\ track = 0 /\ i = 0
    /\ x_all = <<>> /\ y_all = <<>> /\ c = <<>> /\ x_new = <<>> /\ y_new = <<>>
    /\ old_vector = <<>> /\ new_vector = <<>> /\ angle_rad = NaN /\ cos = NaN /\ sin = NaN
    /\ x_rotated = <<>> /\ y_rotated = <<>> /\ figures = <<>>
    /\ spc = "idle" /\ argv = <<>> /\ args = <<>> /\ environ = <<>> /\ folders = {}
    /\ mkdir_ok = FALSE /\ server = <<>> /\ db_name = "" /\ cache_dir = <<>>
    /\ cache_enabled = FALSE /\ create_ret = <<>> /\ connections = <<>> /\ tables = <<>>
    /\ populated = <<>> /\ table_index = 0 /\ error = "" /\ sql_printed = <<>>
    /\ tpc = "idle" /\ race_laps = <<>> /\ all_drivers = <<>> /\ drivers = None
    /\ telem_ret = <<>>

CallGetSectorDistances ==
    /\ dpc = "call"
    /\ LET out == getSectorDistances(session_laps, debugger)
       IN  /\ sec12s' = out.sec12s
           /\ sec23s' = out.sec23s
           /\ dist_ret' = out.ret
           /\ dpc' = IF out.raised THEN "raised" ELSE "returned"
    /\ UNCHANGED <<session_laps, debugger, labelVars, dictVars, mainVars, sqlVars, telemVars>>

----------------------------------------------------------------------------
(* The seasons: what the telemetry provider holds *)

\* the most events a season's schedule holds
MaxEvents == 2

\* The qualifying session of each circuit, by event name: what
\* fastf1.get_session(year, event['OfficialEventName'], 'Q') loads.
\*   "A", "B", "C"  ten or more timed laps of one kind
\*   "Short"        a session with only five timed laps
\*   "E"            a session in which one lap's telemetry cannot be fetched
\*   "Square"       ten laps round the unit square
EventNames == <<"A", "B", "E", "C", "Short", "Square">>

SessionOfEvent ==
    [name \in {EventNames[k] : k \in 1..Len(EventNames)} |->
        CASE name = "A" -> Repeat(LapA, 10)
          [] name = "B" -> Repeat(LapB, 12)
          [] name = "C" -> Repeat(LapC, 10)
          [] name = "Short" -> Repeat(LapA, 5)
          [] name = "E" -> <<LapE>> \o Repeat(LapB, 9)
          [] name = "Square" -> Repeat(LapS, 10)]

\* a season: up to MaxEvents consecutive events of the calendar, from any start
Season(start, m) == [e \in 1..m |-> EventNames[((start + e - 2) % Len(EventNames)) + 1]]

Schedules == {Season(start, m) : start \in 1..Len(EventNames), m \in 1..MaxEvents}

\* does the debugger prompt at all while the schedule's sessions are read
Prompts(sched) ==
    \E e \in 1..Len(sched) :
        \E k \in 1..Len(SessionOfEvent[sched[e]]) : LapFails(SessionOfEvent[sched[e]][k])

----------------------------------------------------------------------------
(* getSectorDict *)

\* the default of the parameter limit_sectors
DefaultLimit == 1000

\* the largest limit_sectors below the default, and the longest selection array,
\* a call is given
MaxLimit == 4

MaxSelection == 2

Range(seq) == {seq[k] : k \in 1..Len(seq)}

\* np.all(np.isin(arr, values))
AllIsIn(arr, values) == \A k \in 1..Len(arr) : arr[k] \in values

\* a validation whose length check clears selected_sectors alone
ValidateSelectionKeepsEvents(sel_sectors, sel_events, n) ==
    IF sel_sectors.some /\ sel_events.some /\ Len(sel_sectors.arr) # Len(sel_events.arr)
    THEN [sectors |-> None, events |-> sel_events,
          out |-> <<"selected_sectors length and selected_events length do not match.",
                    "Generating new selected_sectors and selected_events">>]
    ELSE [sectors |-> sel_sectors, events |-> sel_events, out |-> <<>>]

\* the validation of the two selection arrays; n is len(schedule)
ValidateSelection(sel_sectors, sel_events, n) ==
    IF sel_sectors.some /\ sel_events.some
    THEN IF Len(sel_sectors.arr) = Len(sel_events.arr)
         THEN IF AllIsIn(sel_sectors.arr, 1..3)
              THEN IF AllIsIn(sel_events.arr, 0..(n - 1))
                   THEN [sectors |-> sel_sectors, events |-> sel_events, out |-> <<>>]
                   ELSE [sectors |-> None, events |-> sel_events,
                         out |-> <<"Events given not in the expected range.",
                                   "Generating new selected_sectors and selected_events">>]
              ELSE [sectors |-> None, events |-> sel_events,
                    out |-> <<"Sectors given not in the sector range.",
                              "Generating new selected_sectors and selected_events">>]
         ELSE [sectors |-> None, events |-> None,
               out |-> <<"selected_sectors length and selected_events length do not match.",
                         "Generating new selected_sectors and selected_events">>]
    ELSE [sectors |-> sel_sectors, events |-> sel_events, out |-> <<>>]

\* sector numbers that start at 0
AllSectorsFromZero(k) == k % 3

\* np.tile([1,2,3], n)[k] and np.repeat(np.arange(n), 3)[k], k counted from 0
AllSectors(k) == (k % 3) + 1

AllEvents(k) == k \div 3

Min(a, b) == IF a < b THEN a ELSE b

\* a set of numbers as an ascending array
RECURSIVE Ascending(_)
Ascending(S) ==
    IF S = {} THEN <<>>
    ELSE LET m == CHOOSE x \in S : \A y \in S : x <= y
         IN  <<m>> \o Ascending(S \ {m})

\* what np.random.choice(np.arange(total), size, replace=False) can return; the
\* dictionary depends on the chosen set alone, and the model lists it ascending
RandomChoices(total, size) == {Ascending(S) : S \in {T \in SUBSET (0..(total - 1)) : Cardinality(T) = size}}

\* RandomChoices for every schedule length and size, computed once
ChoicesOf ==
    [m \in 1..MaxEvents |->
        [size \in (0..Min(MaxLimit, m * 3)) \cup {m * 3} |-> RandomChoices(m * 3, size)]]

\* session.laps.pick_fastest(): the first lap of the least LapTime
PickFastest(laps) ==
    laps[CHOOSE k \in 1..Len(laps) :
            /\ \A j \in 1..Len(laps) : laps[k].LapTime <= laps[j].LapTime
            /\ \A j \in 1..(k - 1) : laps[j].LapTime > laps[k].LapTime]

\* a cut that takes the samples of the sectors up to s
WhereUpTo(labels, s) == SelectSeq([k \in 1..Len(labels) |-> k], LAMBDA k : labels[k] <= s)

\* np.where(sectors == s)[0]
Where(labels, s) == SelectSeq([k \in 1..Len(labels) |-> k], LAMBDA k : labels[k] = s)

\* points[sector_cut], points being the lap's (X, Y) pairs
PointsAt(tel, cut) == [k \in 1..Len(cut) |-> <<tel[cut[k]].X, tel[cut[k]].Y>>]

\* the schedule's own row label of an event (provider data)
DfIndex(event_index) == event_index + 1

\* a test that looks at the event alone
EventSelected(events, secs, event_index, s) ==
    \E k \in 1..Len(events) : events[k] = event_index

\* is the pair (event_index, s) among the selected pairs
PairSelected(events, secs, event_index, s) ==
    \E k \in 1..Len(events) : events[k] = event_index /\ secs[k] = s

\* the entries one event adds to the dictionary
EntriesOf(event_index, tel, labels, events, secs) ==
    LET chosen == {s \in 1..3 : PairSelected(events, secs, event_index, s)}
    IN  [key \in {event_index * 3 + s : s \in chosen} |->
            [sector |-> key - event_index * 3,
             event_index |-> event_index,
             df_index |-> DfIndex(event_index),
             points |-> PointsAt(tel, Where(labels, key - event_index * 3))]]

\* What the loop body reads of one event's session, lines 184-196: the fastest
\* lap's telemetry and its labels, or that an exception left the function.
SessionCut(session, dbg) ==
    IF session = <<>> \/ LapFails(PickFastest(session))
    THEN [raised |-> TRUE, tel |-> <<>>, labels |-> <<>>]
    ELSE LET lap    == PickFastest(session)
             bounds == getSectorDistances(session, dbg)
         IN  IF bounds.raised
             THEN [raised |-> TRUE, tel |-> <<>>, labels |-> <<>>]
             ELSE [raised |-> FALSE, tel |-> lap.tel,
                   labels |-> getSectorsForTel([k \in 1..Len(lap.tel) |-> lap.tel[k].Distance],
                                               bounds.ret[1], bounds.ret[2])]

\* SessionCut of every event's session, computed once
CutOfEvent ==
    [name \in DOMAIN SessionOfEvent |->
        [dbg \in {"continue", "quit"} |-> SessionCut(SessionOfEvent[name], dbg)]]

\* The loop over the schedule from event_index on.  events is None's array
\* when selected_events was None: np.asarray(None).flatten() holds the one
\* element None, which no event index equals.
RECURSIVE BuildDict(_, _, _, _, _, _)
BuildDict(sched, event_index, events, secs, dbg, dict) ==
    IF event_index >= Len(sched) THEN [raised |-> FALSE, dict |-> dict]
    ELSE IF ~events.some \/ event_index \notin Range(events.arr)
         THEN BuildDict(sched, event_index + 1, events, secs, dbg, dict)
    ELSE LET cut == CutOfEvent[sched[event_index + 1]][dbg]
         IN  IF cut.raised THEN [raised |-> TRUE, dict |-> dict]
             ELSE BuildDict(sched, event_index + 1, events, secs, dbg,
                            EntriesOf(event_index, cut.tel, cut.labels, events.arr, secs.arr) @@ dict)

\* getSectorDict(year, limit_sectors, selected_events, selected_sectors); sched
\* is the year's schedule, choice what np.random.choice returns if it is called
getSectorDict(sched, limit, sel_events, sel_sectors, choice, dbg) ==
    LET n     == Len(sched)
        valid == ValidateSelection(sel_sectors, sel_events, n)
    IN  IF ~valid.sectors.some /\ ~valid.events.some
        THEN LET lim    == IF limit > n * 3 THEN n * 3 ELSE limit
                 secs   == Some([k \in 1..Len(choice) |-> AllSectors(choice[k])])
                 events == Some([k \in 1..Len(choice) |-> AllEvents(choice[k])])
                 out    == valid.out \o <<"Selecting sectors.", "Using events/sectors">>
                 built  == BuildDict(sched, 0, events, secs, dbg, <<>>)
             IN  [raised |-> built.raised, sector_dict |-> built.dict, limit_sectors |-> lim,
                  selected_sectors |-> secs, selected_events |-> events, printed |-> out]
        ELSE IF ~valid.sectors.some
        THEN \* len(None): TypeError
             [raised |-> TRUE, sector_dict |-> <<>>, limit_sectors |-> limit,
              selected_sectors |-> valid.sectors, selected_events |-> valid.events,
              printed |-> valid.out]
        ELSE LET built == BuildDict(sched, 0, valid.events, valid.sectors, dbg, <<>>)
             IN  [raised |-> built.raised, sector_dict |-> built.dict,
                  limit_sectors |-> Len(valid.sectors.arr),
                  selected_sectors |-> valid.sectors, selected_events |-> valid.events,
                  printed |-> valid.out \o <<"Using events/sectors">>]

\* is np.random.choice reached, and with what size
ChoiceSize(sched, limit, sel_events, sel_sectors) ==
    LET valid == ValidateSelection(sel_sectors, sel_events, Len(sched))
    IN  IF ~valid.sectors.some /\ ~valid.events.some THEN Min(limit, Len(sched) * 3) ELSE 0

OptionalArrays(values) == {None} \cup {Some(a) : a \in SeqsUpTo(values, MaxSelection)}

DictInit ==
    /\ gpc = "call"
    /\ schedule \in Schedules
    /\ selected_events \in OptionalArrays(0..MaxEvents)
    /\ selected_sectors \in OptionalArrays(1..4)
    \* limit_sectors is read only when a random selection is made: a call that
    \* gives an array is tried with one small limit and with the default
    /\ limit_sectors \in (IF selected_events = None /\ selected_sectors = None
                          THEN (0..MaxLimit) \cup {DefaultLimit}
                          ELSE {1, DefaultLimit})
    /\ sector_dict = <<>>
    /\ printed = <<>>
    /\ debugger \in (IF Prompts(schedule) THEN {"continue", "quit"} ELSE {"continue"})
    \* the other parts of the script stay idle
    /\ lpc = "idle" /\ tel_Distance = <<>> /\ sec12 = NaN /\ sec23 = NaN /\ sectors = <<>>
    /\ dpc = "idle" /\ session_laps = <<>> /\ sec12s = <<>> /\ sec23s = <<>> /\ dist_ret = <<>>
    /\ mpc = "idle" /\ sector_orders = <<>> /\ track = 0 /\ i = 0
    /\ x_all = <<>> /\ y_all = <<>> /\ c = <<>> /\ x_new = <<>> /\ y_new = <<>>
    /\ old_vector = <<>> /\ new_vector = <<>> /\ angle_rad = NaN /\ cos = NaN /\ sin = NaN
    /\ x_rotated = <<>> /\ y_rotated = <<>> /\ figures = <<>>
    /\ spc = "idle" /\ argv = <<>> /\ args = <<>> /\ environ = <<>> /\ folders = {}
    /\ mkdir_ok = FALSE /\ server = <<>> /\ db_name = "" /\ cache_dir = <<>>
    /\ cache_enabled = FALSE /\ create_ret = <<>> /\ connections = <<>> /\ tables = <<>>
    /\ populated = <<>> /\ table_index = 0 /\ error = "" /\ sql_printed = <<>>
    /\ tpc = "idle" /\ race_laps = <<>> /\ all_drivers = <<>> /\ drivers = None
    /\ telem_ret = <<>>

CallGetSectorDict ==
    /\ gpc = "call"
    /\ \E choice \in ChoicesOf[Len(schedule)][ChoiceSize(schedule, limit_sectors,
                                                          selected_events, selected_sectors)] :
          \E out \in {getSectorDict(schedule, limit_sectors, selected_events, selected_sectors,
                                    choice, debugger)} :
              /\ gpc' = IF out.raised THEN "raised" ELSE "returned"
              /\ sector_dict' = out.sector_dict
              /\ limit_sectors' = out.limit_sectors
              /\ selected_sectors' = out.selected_sectors
              /\ selected_events' = out.selected_events
              /\ printed' = out.printed
    /\ UNCHANGED <<schedule, labelVars, distVars, mainVars, sqlVars, telemVars>>

----------------------------------------------------------------------------
(* __main__: the track composer *)

\* limit_sectors of the script, and the length of a track
MainLimit == 100

TrackLen == 6

\* the square root of a perfect square
ISqrt(k) == CHOOSE r \in 0..k : r * r = k

\* a norm that takes the first coordinate alone
NormOfFirst(v) ==
    IF IsNaN(v[1]) \/ IsNaN(v[2]) THEN NaN
    ELSE F(Abs(v[1].n))

\* np.linalg.norm(v) of a vector with whole coordinates whose length is whole
Norm(v) ==
    IF IsNaN(v[1]) \/ IsNaN(v[2]) THEN NaN
    ELSE F(ISqrt(v[1].n * v[1].n + v[2].n * v[2].n))

\* v.flatten() / np.linalg.norm(v)
Normalized(v) == <<FDiv(v[1], Norm(v)), FDiv(v[2], Norm(v))>>

\* np.arctan2(y, x) for a unit vector (x, y) along an axis, in quarter turns
ArcTan2(y, x) ==
    IF IsNaN(y) \/ IsNaN(x) THEN NaN
    ELSE CASE y = F(0)  /\ x = F(1)  -> F(0)
           [] y = F(1)  /\ x = F(0)  -> F(1)
           [] y = F(0)  /\ x = F(-1) -> F(2)
           [] y = F(-1) /\ x = F(0)  -> F(-1)

\* np.cos and np.sin of an angle in quarter turns
Cos(a) ==
    IF IsNaN(a) THEN NaN
    ELSE CASE a = F(0) -> F(1) [] a = F(1) -> F(0) [] a = F(2) -> F(-1) [] a = F(-1) -> F(0)

Sin(a) ==
    IF IsNaN(a) THEN NaN
    ELSE CASE a = F(0) -> F(0) [] a = F(1) -> F(1) [] a = F(2) -> F(0) [] a = F(-1) -> F(-1)

\* the angle taken the other way round, from old to new
AngleBetweenReversed(new, old) ==
    ArcTan2(FSub(FMul(old[1], new[2]), FMul(old[2], new[1])),
            FAdd(FMul(new[1], old[1]), FMul(new[2], old[2])))

\* np.arctan2(new[0]*old[1] - new[1]*old[0], new[0]*old[0] + new[1]*old[1])
AngleBetween(new, old) ==
    ArcTan2(FSub(FMul(new[1], old[2]), FMul(new[2], old[1])),
            FAdd(FMul(new[1], old[1]), FMul(new[2], old[2])))

\* a shift that puts the sector's last point, not its first, at the origin
XFromLast(points) == [k \in 1..Len(points) |-> FSub(F(points[k][1]), F(points[Len(points)][1]))]

\* points[:,:,0] - points[:,:,0][0] and points[:,:,1] - points[:,:,1][0]
XFromFirst(points) == [k \in 1..Len(points) |-> FSub(F(points[k][1]), F(points[1][1]))]

\* the y coordinates left where the lap has them
YAsGiven(points) == [k \in 1..Len(points) |-> F(points[k][2])]

YFromFirst(points) == [k \in 1..Len(points) |-> FSub(F(points[k][2]), F(points[1][2]))]

\* a rotation with the sign of the sine term wrong
RotateXPlus(co, si, xs, ys, shift) ==
    [k \in 1..Len(xs) |-> FAdd(FAdd(FMul(co, xs[k]), FMul(si, ys[k])), shift)]

\* cos * x_new - sin * y_new + x_all[-1]
RotateX(co, si, xs, ys, shift) ==
    [k \in 1..Len(xs) |-> FAdd(FSub(FMul(co, xs[k]), FMul(si, ys[k])), shift)]

\* sin * x_new + cos * y_new + y_all[-1]
RotateY(co, si, xs, ys, shift) ==
    [k \in 1..Len(xs) |-> FAdd(FAdd(FMul(si, xs[k]), FMul(co, ys[k])), shift)]

\* labels that carry the sector number instead of the circuit
LabelsBySector(entry) == [k \in 1..Len(entry.points) |-> entry.sector]

\* np.ones(len) * (event_index + 1)
Labels(entry) == [k \in 1..Len(entry.points) |-> entry.event_index + 1]

\* an append that puts the new values in front
NpPrepend(arr, values) == values \o arr

\* np.append(arr, values): a new array, arr followed by values
NpAppend(arr, values) == arr \o values

Last(seq) == seq[Len(seq)]

\* every order of the elements of a set
RECURSIVE Orders(_)
Orders(S) ==
    IF S = {} THEN {<<>>}
    ELSE UNION {{<<x>> \o p : p \in Orders(S \ {x})} : x \in S}

\* np.reshape(order, (-1, TrackLen)), the length of order being a multiple of TrackLen
Reshape(order) ==
    [r \in 1..(Len(order) \div TrackLen) |->
        SubSeq(order, (r - 1) * TrackLen + 1, r * TrackLen)]

\* the sector the inner loop is at
sector_order == sector_orders[track]

sector_index == sector_order[i + 1]

MainInit ==
    /\ mpc = "start"
    /\ schedule \in Schedules
    /\ debugger \in (IF Prompts(schedule) THEN {"continue", "quit"} ELSE {"continue"})
    /\ sector_dict = <<>>
    /\ sector_orders = <<>>
    /\ track = 0
    /\ i = 0
    /\ x_all = <<>> /\ y_all = <<>> /\ c = <<>>
    /\ x_new = <<>> /\ y_new = <<>>
    /\ old_vector = <<>> /\ new_vector = <<>>
    /\ angle_rad = NaN /\ cos = NaN /\ sin = NaN
    /\ x_rotated = <<>> /\ y_rotated = <<>>
    /\ figures = <<>>
    \* the other parts of the script stay idle
    /\ lpc = "idle" /\ tel_Distance = <<>> /\ sec12 = NaN /\ sec23 = NaN /\ sectors = <<>>
    /\ dpc = "idle" /\ session_laps = <<>> /\ sec12s = <<>> /\ sec23s = <<>> /\ dist_ret = <<>>
    /\ gpc = "idle" /\ limit_sectors = MainLimit /\ selected_events = None
    /\ selected_sectors = None /\ printed = <<>>
    /\ spc = "idle" /\ argv = <<>> /\ args = <<>> /\ environ = <<>> /\ folders = {}
    /\ mkdir_ok = FALSE /\ server = <<>> /\ db_name = "" /\ cache_dir = <<>>
    /\ cache_enabled = FALSE /\ create_ret = <<>> /\ connections = <<>> /\ tables = <<>>
    /\ populated = <<>> /\ table_index = 0 /\ error = "" /\ sql_printed = <<>>
    /\ tpc = "idle" /\ race_laps = <<>> /\ all_drivers = <<>> /\ drivers = None
    /\ telem_ret = <<>>

composite == <<x_all, y_all, c>>

\* what no step of __main__ changes
restOfMain == <<labelVars, distVars, gpc, schedule, limit_sectors, selected_events,
                selected_sectors, printed, sqlVars, telemVars>>

scratch == <<x_new, y_new, old_vector, new_vector, angle_rad, cos, sin, x_rotated, y_rotated>>

\* line 231: sector_dict = getSectorDict(year, limit_sectors=100, None, None)
MainGetSectorDict ==
    /\ mpc = "start"
    /\ \E choice \in ChoicesOf[Len(schedule)][ChoiceSize(schedule, MainLimit, None, None)] :
          \E out \in {getSectorDict(schedule, MainLimit, None, None, choice, debugger)} :
              /\ sector_dict' = out.sector_dict
              /\ mpc' = IF out.raised THEN "raised" ELSE "order"
    /\ UNCHANGED <<sector_orders, track, i, composite, scratch, figures>>
    /\ UNCHANGED restOfMain

\* lines 235-238: the random order, split into tracks of six; a number of
\* sectors that is no multiple of six makes np.reshape raise
ChooseOrder ==
    /\ mpc = "order"
    /\ IF Cardinality(DOMAIN sector_dict) % TrackLen # 0
       THEN mpc' = "raised" /\ UNCHANGED <<sector_orders, track>>
       ELSE \E order \in Orders(DOMAIN sector_dict) :
               /\ sector_orders' = Reshape(order)
               /\ track' = 1
               /\ mpc' = IF Len(order) = 0 THEN "save" ELSE "compose"
    /\ UNCHANGED <<sector_dict, i, composite, scratch, figures>>
    /\ UNCHANGED restOfMain

\* lines 244-248: the first sector of a track starts the composite
SeedTrack ==
    /\ mpc = "compose"
    /\ i = 0
    /\ LET points == sector_dict[sector_index].points
       IN  IF points = <<>>
           THEN \* points[:,:,0][0]: IndexError
                mpc' = "raised" /\ UNCHANGED <<i, composite>>
           ELSE /\ x_all' = XFromFirst(points)
                /\ y_all' = YFromFirst(points)
                /\ c' = Labels(sector_dict[sector_index])
                /\ i' = i + 1
                /\ mpc' = IF i + 1 = TrackLen THEN "render" ELSE "compose"
    /\ UNCHANGED <<sector_dict, sector_orders, track, scratch, figures>>
    /\ UNCHANGED restOfMain

\* lines 250-288: a later sector is rotated, moved to the end of the
\* composite and appended
AppendSector ==
    /\ mpc = "compose"
    /\ i > 0
    /\ LET points == sector_dict[sector_index].points
       IN  IF points = <<>>
           THEN \* line 252, points[:,:,0][0]: IndexError
                /\ mpc' = "raised"
                /\ UNCHANGED <<i, composite, scratch>>
           ELSE IF Len(x_all) < 2
           THEN \* line 256, x_all[-2]: IndexError
                /\ mpc' = "raised"
                /\ x_new' = XFromFirst(points)
                /\ y_new' = YFromFirst(points)
                /\ UNCHANGED <<i, composite, old_vector, new_vector, angle_rad, cos, sin,
                               x_rotated, y_rotated>>
           ELSE IF Len(points) < 2
           THEN \* line 259, x_new[1]: IndexError
                /\ mpc' = "raised"
                /\ x_new' = XFromFirst(points)
                /\ y_new' = YFromFirst(points)
                /\ old_vector' = Normalized(<<FSub(Last(x_all), x_all[Len(x_all) - 1]),
                                              FSub(Last(y_all), y_all[Len(y_all) - 1])>>)
                /\ UNCHANGED <<i, composite, new_vector, angle_rad, cos, sin,
                               x_rotated, y_rotated>>
           ELSE /\ x_new' = XFromFirst(points)
                /\ y_new' = YFromFirst(points)
                /\ old_vector' = Normalized(<<FSub(Last(x_all), x_all[Len(x_all) - 1]),
                                              FSub(Last(y_all), y_all[Len(y_all) - 1])>>)
                /\ new_vector' = Normalized(<<FSub(x_new'[2], x_new'[1]),
                                              FSub(y_new'[2], y_new'[1])>>)
                /\ angle_rad' = AngleBetween(new_vector', old_vector')
                /\ cos' = Cos(angle_rad')
                /\ sin' = Sin(angle_rad')
                /\ x_rotated' = RotateX(cos', sin', x_new', y_new', Last(x_all))
                /\ y_rotated' = RotateY(cos', sin', x_new', y_new', Last(y_all))
                /\ x_all' = NpAppend(x_all, x_rotated')
                /\ y_all' = NpAppend(y_all, y_rotated')
                /\ c' = NpAppend(c, Labels(sector_dict[sector_index]))
                /\ i' = i + 1
                /\ mpc' = IF i + 1 = TrackLen THEN "render" ELSE "compose"
    /\ UNCHANGED <<sector_dict, sector_orders, track, figures>>
    /\ UNCHANGED restOfMain

\* lines 290-344: the composite is handed to the plotting layer, and the outer
\* loop moves to the next track
Render ==
    /\ mpc = "render"
    /\ figures' = Append(figures, [x |-> x_all, y |-> y_all, c |-> c])
    /\ IF track < Len(sector_orders)
       THEN track' = track + 1 /\ i' = 0 /\ mpc' = "compose"
       ELSE mpc' = "save" /\ UNCHANGED <<track, i>>
    /\ UNCHANGED <<sector_dict, sector_orders, composite, scratch>>
    /\ UNCHANGED restOfMain

\* lines 347-348: save_multi_image
Save ==
    /\ mpc = "save"
    /\ mpc' = "done"
    /\ UNCHANGED <<sector_dict, sector_orders, track, i, composite, scratch, figures>>
    /\ UNCHANGED restOfMain

----------------------------------------------------------------------------
(* make_tables.py: the command line and the class SQLGenerator *)

\* the names typed after -db; without -db the name is "formula1"
DatabaseNames == {"Formula1", "f1db"}

\* the databases the server may hold before the run
ServerDatabases == {"formula1", "Formula1"}

\* str.lower() on the names above
Lower(name) ==
    CASE name = "Formula1" -> "formula1"
      [] OTHER -> name

\* bool(value) of a str, argparse's type=bool: only the empty string is false
Bool(value) == value # ""

\* the folders a cache path or the f1_cache variable may name
CachePaths == {"/data/f1_cache", "/mnt/f1_cache"}

\* os.path.join(os.getcwd(), 'f1_cache')
CwdCache == "./f1_cache"

\* the values typed after -cdb and -dc
Typed == {"True", "False", ""}

\* an option that is absent, or present with a value
Option(values) == {<<>>} \cup {<<v>> : v \in values}

\* parser.parse_args(): -db, -cdb, -dc and -s with their defaults
parse_args(av) ==
    [db_name         |-> IF av.db = <<>> THEN "formula1" ELSE av.db[1],
     create_database |-> IF av.cdb = <<>> THEN TRUE ELSE Bool(av.cdb[1]),
     disable_cache   |-> IF av.dc = <<>> THEN FALSE ELSE Bool(av.dc[1]),
     cache_path      |-> IF av.s = <<>> THEN "" ELSE av.s[1]]

\* type(path) == 'str': a type object is never equal to a string
TypeEqualsStr(path) == FALSE

\* what enableCache leaves: the exception it raised (if any), self.cache_dir,
\* the folders, and what it printed
CacheSet(dir, dirs, out) ==
    [error |-> "", cache_dir |-> <<dir>>, folders |-> dirs,
     out |-> out \o <<"FastF1 data cache location">>]

CacheFault(name, dirs, out) ==
    [error |-> name, cache_dir |-> <<>>, folders |-> dirs, out |-> out]

\* SQLGenerator.enableCache(path); path is <<>> for None, env is os.environ's
\* f1_cache (<<>> when unset), dirs the folders that exist
enableCache(path, env, dirs, can_mkdir) ==
    IF env = <<>>
    THEN \* os.environ['f1_cache'], line 176 or line 177
         CacheFault("KeyError", dirs, <<>>)
    ELSE IF path = <<>> \/ path = env
    THEN IF env[1] \in dirs THEN CacheSet(env[1], dirs, <<>>)
         ELSE LET out == <<"Default FastF1 cache location does not exist.">>
              IN  IF CwdCache \in dirs THEN CacheSet(CwdCache, dirs, out)
                  ELSE IF can_mkdir THEN CacheSet(CwdCache, dirs \cup {CwdCache}, out)
                  ELSE CacheFault("Exception", dirs, out)
    ELSE IF TypeEqualsStr(path)
    THEN IF path[1] \in dirs THEN CacheSet(path[1], dirs, <<>>)
         ELSE CacheFault("Exception", dirs, <<>>)
    ELSE CacheFault("Exception", dirs, <<>>)

\* pg2.connect(..., database=name): the server is up and holds a database of
\* exactly that name
Connects(name, srv) == srv.up /\ name \in srv.databases

\* SQLGenerator.createDatabase(): the exception it raised (if any), the value
\* it returned, self.db_name, the server, and what it printed
createDatabase(name, srv) ==
    LET lower   == Lower(name)
        renamed == IF name # lower THEN <<"Renaming">> ELSE <<>>
    IN  IF ~srv.up
        THEN [error |-> "Exception", ret |-> <<>>, db_name |-> lower, server |-> srv,
              out |-> renamed]
        ELSE IF lower \in srv.databases
        THEN [error |-> "", ret |-> <<0>>, db_name |-> lower, server |-> srv,
              out |-> renamed \o <<"Database connected",
                                   "Database already exists, not generated.">>]
        ELSE IF ~srv.may_create
        THEN [error |-> "ProgrammingError", ret |-> <<>>, db_name |-> lower, server |-> srv,
              out |-> renamed \o <<"Database connected", "Database does not exist.">>]
        ELSE [error |-> "", ret |-> <<1>>, db_name |-> lower,
              server |-> [srv EXCEPT !.databases = @ \cup {lower}],
              out |-> renamed \o <<"Database connected", "Database does not exist.",
                                   "Database Generated.">>]

\* the tables each table refers to: its REFERENCES clauses, and the tables its
\* INSERT command looks up
References ==
    [name \in {"countries", "tracks", "events", "teams", "drivers", "results", "laps"} |->
        CASE name = "tracks"  -> {"countries"}
          [] name = "events"  -> {"tracks", "countries"}
          [] name = "drivers" -> {"teams"}
          [] name = "results" -> {"events", "drivers"}
          [] name = "laps"    -> {"events", "drivers"}
          [] OTHER            -> {}]

\* the tables in the order of their names
OrderByName == <<"countries", "drivers", "events", "laps", "results", "teams", "tracks">>

\* the tables in the order initiateAllTables creates them
InitiateOrder == <<"countries", "tracks", "events", "teams", "drivers", "results", "laps">>

\* the tables in the order populateAllTables fills them
PopulateOrder == <<"countries", "tracks", "events", "teams", "drivers", "results", "laps">>

SqlInit ==
    /\ spc = "parse"
    /\ argv \in [db : Option(DatabaseNames), cdb : Option(Typed), dc : Option({"True"}),
                 s : Option(CachePaths)]
    /\ args = <<>>
    /\ environ \in Option({"/data/f1_cache"})
    /\ folders \in SUBSET (CachePaths \cup {CwdCache})
    /\ mkdir_ok \in BOOLEAN
    /\ server \in {srv \in [up : BOOLEAN, databases : SUBSET ServerDatabases,
                              may_create : BOOLEAN, has_tables : BOOLEAN] :
                        srv.has_tables => srv.databases # {}}
    /\ db_name = ""
    /\ cache_dir = <<>>
    /\ cache_enabled = FALSE
    /\ create_ret = <<>>
    /\ connections = <<>>
    /\ tables = <<>>
    /\ populated = <<>>
    /\ table_index = 0
    /\ error = ""
    /\ sql_printed = <<>>
    \* the other parts stay idle
    /\ lpc = "idle" /\ tel_Distance = <<>> /\ sec12 = NaN /\ sec23 = NaN /\ sectors = <<>>
    /\ dpc = "idle" /\ session_laps = <<>> /\ sec12s = <<>> /\ sec23s = <<>> /\ dist_ret = <<>>
    /\ debugger = "continue"
    /\ gpc = "idle" /\ schedule = <<>> /\ limit_sectors = 0 /\ selected_events = None
    /\ selected_sectors = None /\ sector_dict = <<>> /\ printed = <<>>
    /\ mpc = "idle" /\ sector_orders = <<>> /\ track = 0 /\ i = 0
    /\ x_all = <<>> /\ y_all = <<>> /\ c = <<>> /\ x_new = <<>> /\ y_new = <<>>
    /\ old_vector = <<>> /\ new_vector = <<>> /\ angle_rad = NaN /\ cos = NaN /\ sin = NaN
    /\ x_rotated = <<>> /\ y_rotated = <<>> /\ figures = <<>>
    /\ tpc = "idle" /\ race_laps = <<>> /\ all_drivers = <<>> /\ drivers = None
    /\ telem_ret = <<>>

\* what no step of make_tables.py changes
restOfSql == <<labelVars, distVars, dictVars, mainVars, telemVars, argv, environ, mkdir_ok>>

\* lines 1044-1055: the arguments are parsed
ParseArgs ==
    /\ spc = "parse"
    /\ args' = parse_args(argv)
    /\ sql_printed' = Append(sql_printed, "Attempting to generate database")
    /\ spc' = "construct"
    /\ UNCHANGED <<folders, server, db_name, cache_dir, cache_enabled, create_ret,
                   connections, tables, populated, table_index, error>>
    /\ UNCHANGED restOfSql

\* lines 1057-1062 and 141-150: SQLGenerator(...) keeps the name as given and
\* enables or disables the cache
NewSQLGenerator ==
    /\ spc = "construct"
    /\ db_name' = args.db_name
    /\ IF args.disable_cache = FALSE
       THEN \E out \in {enableCache(IF args.cache_path = "" THEN <<>> ELSE <<args.cache_path>>,
                                    environ, folders, mkdir_ok)} :
               /\ folders' = out.folders
               /\ cache_dir' = out.cache_dir
               /\ cache_enabled' = (out.error = "")
               /\ sql_printed' = sql_printed \o out.out
               /\ error' = out.error
               /\ spc' = IF out.error = "" THEN "create" ELSE "raised"
       ELSE /\ cache_enabled' = FALSE
            /\ spc' = "create"
            /\ UNCHANGED <<folders, cache_dir, sql_printed, error>>
    /\ UNCHANGED <<args, server, create_ret, connections, tables, populated, table_index>>
    /\ UNCHANGED restOfSql

\* lines 1063-1067: createDatabase() is called if args.create_database is True
MainCreateDatabase ==
    /\ spc = "create"
    /\ IF args.create_database = TRUE
       THEN \E out \in {createDatabase(db_name, server)} :
               /\ db_name' = out.db_name
               /\ server' = out.server
               /\ create_ret' = out.ret
               /\ sql_printed' = sql_printed \o <<"Attempting to create database.">> \o out.out
               /\ error' = out.error
               /\ spc' = IF out.error = "" THEN "initiate" ELSE "raised"
       ELSE /\ sql_printed' = Append(sql_printed, "Assuming database exists.")
            /\ spc' = "initiate"
            /\ UNCHANGED <<db_name, server, create_ret, error>>
    /\ table_index' = 1
    /\ UNCHANGED <<args, folders, cache_dir, cache_enabled, connections, tables, populated>>
    /\ UNCHANGED restOfSql

\* lines 1000-1010 and 258-303: the next table of initiateAllTables; a failed
\* connection is printed and connection.cursor() then raises UnboundLocalError
InitiateNextTable ==
    /\ spc = "initiate"
    /\ connections' = Append(connections, db_name)
    /\ IF ~Connects(db_name, server)
       THEN /\ sql_printed' = Append(sql_printed, "Unable to connect to the database")
            /\ error' = "UnboundLocalError"
            /\ spc' = "raised"
            /\ UNCHANGED <<tables, table_index>>
       ELSE /\ IF server.has_tables /\ create_ret # <<1>>
               THEN /\ sql_printed' = Append(sql_printed, "table NOT generated.")
                    /\ UNCHANGED tables
               ELSE /\ sql_printed' = Append(sql_printed, "table generated.")
                    /\ tables' = Append(tables, InitiateOrder[table_index])
            /\ IF table_index < Len(InitiateOrder)
               THEN table_index' = table_index + 1 /\ spc' = "initiate"
               ELSE table_index' = 1 /\ spc' = "populate"
            /\ UNCHANGED error
    /\ UNCHANGED <<args, folders, server, db_name, cache_dir, cache_enabled, create_ret,
                   populated>>
    /\ UNCHANGED restOfSql

\* lines 1012-1028: the next table of populateAllTables; each method connects
\* to self.db_name and gives the table up when the connection fails
PopulateNextTable ==
    /\ spc = "populate"
    /\ connections' = Append(connections, db_name)
    /\ IF ~Connects(db_name, server)
       THEN /\ sql_printed' = Append(sql_printed, "Unable to connect to the database")
            /\ UNCHANGED populated
       ELSE /\ populated' = Append(populated, PopulateOrder[table_index])
            /\ UNCHANGED sql_printed
    /\ IF table_index < Len(PopulateOrder)
       THEN table_index' = table_index + 1 /\ spc' = "populate"
       ELSE table_index' = table_index /\ spc' = "done"
    /\ UNCHANGED <<args, folders, server, db_name, cache_dir, cache_enabled, create_ret,
                   tables, error>>
    /\ UNCHANGED restOfSql

----------------------------------------------------------------------------
(* fastf1_tools.py: formattedLapTelem *)

\* the longest session.laps tried
MaxRaceLaps == 2

\* the drivers of the session, and one who is not in it
SessionDrivers == <<"VER", "HAM">>

DriverNames == {"VER", "HAM", "ALO"}

\* a lap of session.laps: its driver and whether it has a pit-in or a pit-out time
RaceLaps == [Driver : Range(SessionDrivers), PitInTime : BOOLEAN, PitOutTime : BOOLEAN]

\* np.asarray(drivers)[np.isin(drivers, all_drivers)]
KnownDrivers(given, known) == SelectSeq(given, LAMBDA d : d \in Range(known))

\* formattedLapTelem(session, drivers=...): the local variable drivers and the
\* returned laps; the filter by pit times is commented out (lines 52-53) and
\* session.laps is returned as it is (line 54)
formattedLapTelem(laps, given, known) ==
    [drivers |-> IF ~given.some THEN Some(known) ELSE Some(KnownDrivers(given.arr, known)),
     ret     |-> laps]

TelemInit ==
    /\ tpc = "call"
    /\ race_laps \in SeqsUpTo(RaceLaps, MaxRaceLaps)
    /\ all_drivers = SessionDrivers
    /\ drivers \in {None} \cup {Some(a) : a \in SeqsUpTo(DriverNames, 1)}
    /\ telem_ret = <<>>
    \* the other parts stay idle
    /\ lpc = "idle" /\ tel_Distance = <<>> /\ sec12 = NaN /\ sec23 = NaN /\ sectors = <<>>
    /\ dpc = "idle" /\ session_laps = <<>> /\ sec12s = <<>> /\ sec23s = <<>> /\ dist_ret = <<>>
    /\ debugger = "continue"
    /\ gpc = "idle" /\ schedule = <<>> /\ limit_sectors = 0 /\ selected_events = None
    /\ selected_sectors = None /\ sector_dict = <<>> /\ printed = <<>>
    /\ mpc = "idle" /\ sector_orders = <<>> /\ track = 0 /\ i = 0
    /\ x_all = <<>> /\ y_all = <<>> /\ c = <<>> /\ x_new = <<>> /\ y_new = <<>>
    /\ old_vector = <<>> /\ new_vector = <<>> /\ angle_rad = NaN /\ cos = NaN /\ sin = NaN
    /\ x_rotated = <<>> /\ y_rotated = <<>> /\ figures = <<>>
    /\ spc = "idle" /\ argv = <<>> /\ args = <<>> /\ environ = <<>> /\ folders = {}
    /\ mkdir_ok = FALSE /\ server = <<>> /\ db_name = "" /\ cache_dir = <<>>
    /\ cache_enabled = FALSE /\ create_ret = <<>> /\ connections = <<>> /\ tables = <<>>
    /\ populated = <<>> /\ table_index = 0 /\ error = "" /\ sql_printed = <<>>

\* lines 42-54
CallFormattedLapTelem ==
    /\ tpc = "call"
    /\ \E out \in {formattedLapTelem(race_laps, drivers, all_drivers)} :
          /\ drivers' = out.drivers
          /\ telem_ret' = out.ret
    /\ tpc' = "returned"
    /\ UNCHANGED <<race_laps, all_drivers, labelVars, distVars, dictVars, mainVars, sqlVars>>

----------------------------------------------------------------------------
(* Specifications.  Each runs one part of the script; the variables of the  *)
(* other parts stay idle.                                                   *)

vars == <<labelVars, distVars, dictVars, mainVars, sqlVars, telemVars>>

LabelNext == CallGetSectorsForTel

SpecLabel == LabelInit /\ [][LabelNext]_vars

DistNext == CallGetSectorDistances

SpecDist == DistInit /\ [][DistNext]_vars

DictNext == CallGetSectorDict

SpecDict == DictInit /\ [][DictNext]_vars

MainNext == MainGetSectorDict \/ ChooseOrder \/ SeedTrack \/ AppendSector \/ Render \/ Save

SpecMain == MainInit /\ [][MainNext]_vars

SqlNext ==
    ParseArgs \/ NewSQLGenerator \/ MainCreateDatabase \/ InitiateNextTable \/ PopulateNextTable

SpecSql == SqlInit /\ [][SqlNext]_vars

TelemNext == CallFormattedLapTelem

SpecTelem == TelemInit /\ [][TelemNext]_vars

----------------------------------------------------------------------------
(* The sector labeler, checked under SpecLabel *)

Labelled == lpc = "returned"

\* C1: for boundaries with sec12 < sec23, getSectorsForTel gives every sample
\* exactly one label of 1, 2, 3 by the half-open rule: 1 iff distance < sec12,
\* 2 iff sec12 <= distance < sec23, 3 iff distance >= sec23; boundaries
\* 1000/2000 over the distances 0, 500, 1500, 2500 give 1, 1, 2, 3, and no
\* sample keeps the initial label 0.
C1_HalfOpenLabels ==
    (Labelled /\ FLt(sec12, sec23)) =>
        /\ Len(sectors) = Len(tel_Distance)
        /\ \A k \in 1..Len(sectors) :
              /\ sectors[k] \in {1, 2, 3}
              /\ sectors[k] = 1 <=> FLt(tel_Distance[k], sec12)
              /\ sectors[k] = 2 <=> (FGe(tel_Distance[k], sec12) /\ FLt(tel_Distance[k], sec23))
              /\ sectors[k] = 3 <=> FGe(tel_Distance[k], sec23)
        /\ (/\ sec12 = F(1000) /\ sec23 = F(2000)
            /\ tel_Distance = <<F(0), F(500), F(1500), F(2500)>>) => sectors = <<1, 1, 2, 3>>

\* the scenario of C1, and a sample on each boundary
C1_Witness ==
    /\ Labelled
    /\ sec12 = F(1000) /\ sec23 = F(2000)
    /\ \/ tel_Distance = <<F(0), F(500), F(1500), F(2500)>> /\ sectors = <<1, 1, 2, 3>>
       \/ tel_Distance = <<F(2000), F(1000), F(500)>> /\ sectors = <<3, 2, 1>>

\* max(distance) of a lap with at least one sample
MaxDistance(dist) == CHOOSE m \in Range(dist) : \A v \in Range(dist) : FGe(m, v)

\* C2: for any distance array and boundaries with 0 < d12 < d23 < max(distance)
\* the labels are non-decreasing in distance: distance[p] <= distance[q]
\* implies label[p] <= label[q].
C2_LabelsMonotone ==
    (/\ Labelled /\ tel_Distance # <<>>
     /\ FLt(F(0), sec12) /\ FLt(sec12, sec23) /\ FLt(sec23, MaxDistance(tel_Distance))) =>
        \A p, q \in 1..Len(sectors) :
            FGe(tel_Distance[q], tel_Distance[p]) => sectors[p] <= sectors[q]

\* an unsorted lap that has samples in all three sectors
C2_Witness ==
    /\ Labelled /\ tel_Distance # <<>>
    /\ FLt(F(0), sec12) /\ FLt(sec12, sec23) /\ FLt(sec23, MaxDistance(tel_Distance))
    /\ Range(sectors) = {1, 2, 3}
    /\ \E p \in 1..Len(sectors) : \E q \in (p + 1)..Len(sectors) :
          FLt(tel_Distance[q], tel_Distance[p]) /\ sectors[q] < sectors[p]

----------------------------------------------------------------------------
(* The track composer, checked under SpecMain *)

\* a sector with at least two points whose first two and last two are distinct
WellFormed(points) ==
    /\ Len(points) >= 2
    /\ points[1] # points[2]
    /\ points[Len(points) - 1] # points[Len(points)]

\* the sectors at the first count positions of the track being composed
AllWellFormed(count) ==
    \A k \in 1..count : WellFormed(sector_dict[sector_order[k]].points)

\* the inner loop has appended at least one sector to the track's composite
AfterAppend == mpc \in {"compose", "render"} /\ i >= 2

\* C3: junction continuity: at every composition step after the first, the
\* first point of the rotated and translated sector coincides with the last
\* point the composite had before the sector was appended, for sectors that
\* each have at least two distinct leading and trailing points.
C3_JunctionContinuity ==
    [][(mpc = "compose" /\ i > 0 /\ i' = i + 1 /\ AllWellFormed(i + 1)) =>
            /\ FEq(x_rotated'[1], Last(x_all))
            /\ FEq(y_rotated'[1], Last(y_all))
            /\ FEq(x_all'[Len(x_all) + 1], Last(x_all))
            /\ FEq(y_all'[Len(y_all) + 1], Last(y_all))]_vars

\* a sector turned by a quarter turn sits on the composite's former last point,
\* away from the origin
C3_Witness ==
    /\ AfterAppend /\ AllWellFormed(i)
    /\ angle_rad = F(1)
    /\ FEq(x_rotated[1], x_all[Len(x_all) - Len(x_rotated)])
    /\ FEq(y_rotated[1], y_all[Len(y_all) - Len(y_rotated)])
    /\ <<x_rotated[1], y_rotated[1]>> # <<F(0), F(0)>>

ScenarioAB ==
    /\ mpc = "compose" /\ i = 2
    /\ sector_dict[sector_order[1]].points = <<<<0, 0>>, <<1, 0>>>>
    /\ sector_dict[sector_order[2]].points = <<<<0, 0>>, <<0, 1>>>>

\* C5 as stated: B's rotated first point is (1,0) and its second point (1,1).
C5_SecondPointAtOneOne ==
    ScenarioAB =>
        /\ <<x_rotated[1], y_rotated[1]>> = <<F(1), F(0)>>
        /\ <<x_rotated[2], y_rotated[2]>> = <<F(1), F(1)>>

\* C5 as amended: B's rotated first point is (1,0) and its second point (2,0):
\* B's entry direction (0,1) is turned onto A's trailing direction (1,0).
C5_SecondPointAtTwoZero ==
    ScenarioAB =>
        /\ <<x_rotated[1], y_rotated[1]>> = <<F(1), F(0)>>
        /\ <<x_rotated[2], y_rotated[2]>> = <<F(2), F(0)>>
        /\ x_all = <<F(0), F(1), F(1), F(2)>>
        /\ y_all = <<F(0), F(0), F(0), F(0)>>

C5_Witness == ScenarioAB /\ angle_rad = F(-1) /\ Len(x_rotated) = 2

----------------------------------------------------------------------------
(* The boundary estimator, checked under SpecDist *)

\* the laps the loop runs over, and those of them whose telemetry is read
LoopLaps == SelectedLaps(session_laps)

ReadLaps == SelectSeq(LoopLaps, LAMBDA lap : ~LapFails(lap))

\* a lap's own two boundary distances
LapSec12(lap) == NearestDistance(lap, lap.Sector1SessionTime)

LapSec23(lap) == NearestDistance(lap, lap.Sector2SessionTime)

\* is value the mean of f over laps (of no laps: any value)
IsMeanOver(value, laps, f(_)) ==
    FEq(FMul(value, F(Len(laps))), FSum([k \in 1..Len(laps) |-> f(laps[k])]))

\* C6: when only k < 10 laps have non-missing sector-1 and sector-2 timestamps,
\* getSectorDistances returns for each boundary the mean over exactly those k
\* laps' nearest-sample distances (the sum divided by k, not by 10).
C6_MeanOverAvailableLaps ==
    (dpc = "returned" /\ Len(LoopLaps) < NFastest /\ ReadLaps = LoopLaps) =>
        /\ IsMeanOver(dist_ret[1], LoopLaps, LapSec12)
        /\ IsMeanOver(dist_ret[2], LoopLaps, LapSec23)

\* C7: when telemetry retrieval for one of the selected laps raises,
\* getSectorDistances skips that lap, excludes it from both averages (it adds
\* neither a value nor a count), continues with the remaining laps and returns.
C7_FailedLapExcluded ==
    (dpc # "call" /\ ReadLaps # LoopLaps) =>
        /\ dpc = "returned"
        /\ IsMeanOver(dist_ret[1], ReadLaps, LapSec12)
        /\ IsMeanOver(dist_ret[2], ReadLaps, LapSec23)

\* C8: the returned pair always satisfies 0 < d12 < d23 < total lap distance,
\* for every session, also one with fewer than 10 or with no usable laps.
C8_BoundariesOrdered ==
    dpc = "returned" =>
        /\ FLt(F(0), dist_ret[1])
        /\ FLt(dist_ret[1], dist_ret[2])
        /\ \A k \in 1..Len(ReadLaps) : FLt(dist_ret[2], Last(ReadLaps[k].tel).Distance)

----------------------------------------------------------------------------
(* The selection validation of getSectorDict, checked under SpecDict *)

BothGiven == gpc = "call" /\ selected_sectors.some /\ selected_events.some

\* the only exception that is not the validation's: the debugger is quit while
\* a session's boundaries are estimated
SessionReadAborted == debugger = "quit" /\ Prompts(schedule)

\* arrays hold count pairwise distinct pairs of the schedule sched
DistinctValidPairs(events, secs, count, sched) ==
    /\ events.some /\ secs.some
    /\ Len(events.arr) = count /\ Len(secs.arr) = count
    /\ \A k \in 1..count : events.arr[k] \in 0..(Len(sched) - 1) /\ secs.arr[k] \in 1..3
    /\ \A k, m \in 1..count :
          (events.arr[k] = events.arr[m] /\ secs.arr[k] = secs.arr[m]) => k = m

C10_SectorRangeFallsBack ==
    [][(/\ BothGiven /\ Len(selected_sectors.arr) = Len(selected_events.arr)
        /\ ~AllIsIn(selected_sectors.arr, 1..3)) =>
            /\ printed'[1] = "Sectors given not in the sector range."
            /\ "Selecting sectors." \in Range(printed')
            /\ DistinctValidPairs(selected_events', selected_sectors',
                                  Min(limit_sectors, 3 * Len(schedule)), schedule)
            /\ gpc' = "returned" \/ SessionReadAborted]_vars

\* C11: given arrays of equal length with every sector in 1..3 and an event
\* index outside 0..len(schedule)-1, getSectorDict prints a warning, falls back
\* to a random selection and returns normally without raising.
C11_EventRangeFallsBack ==
    [][(/\ BothGiven /\ Len(selected_sectors.arr) = Len(selected_events.arr)
        /\ AllIsIn(selected_sectors.arr, 1..3)
        /\ ~AllIsIn(selected_events.arr, 0..(Len(schedule) - 1))) =>
            /\ printed'[1] = "Events given not in the expected range."
            /\ "Selecting sectors." \in Range(printed')
            /\ DistinctValidPairs(selected_events', selected_sectors',
                                  Min(limit_sectors, 3 * Len(schedule)), schedule)
            /\ gpc' = "returned" \/ SessionReadAborted]_vars

\* the pair getSectorDistances returns for each event's session
BoundsOfEvent ==
    [name \in DOMAIN SessionOfEvent |->
        [dbg \in {"continue", "quit"} |-> getSectorDistances(SessionOfEvent[name], dbg).ret]]

\* does the distance d lie in the half-open range of sector s for boundaries d12, d23
InSectorRange(d, s, d12, d23) ==
    CASE s = 1 -> FGe(d, F(0)) /\ FLt(d, d12)
      [] s = 2 -> FGe(d, d12) /\ FLt(d, d23)
      [] s = 3 -> FGe(d, d23)

\* the entry's points are the samples lo..hi of tel, in order
IsRunOf(points, tel, lo, hi) ==
    points = [j \in 1..(hi - lo + 1) |-> <<tel[lo + j - 1].X, tel[lo + j - 1].Y>>]

\* C12: for every entry of the dictionary returned by getSectorDict, 'points'
\* is exactly the fastest lap's samples whose distance lies in the sector's
\* half-open range ([0,d12), [d12,d23) or [d23,total)), in the original sample
\* order, and those samples are a contiguous run of sample indices of the lap.
C12_PointsAreTheSectorRun ==
    gpc = "returned" =>
        \A key \in DOMAIN sector_dict :
            LET entry == sector_dict[key]
                name  == schedule[entry.event_index + 1]
                tel   == PickFastest(SessionOfEvent[name]).tel
                d     == BoundsOfEvent[name][debugger]
                idx   == {k \in 1..Len(tel) :
                             InSectorRange(tel[k].Distance, entry.sector, d[1], d[2])}
            IN  /\ key = entry.event_index * 3 + entry.sector
                /\ Len(entry.points) = Cardinality(idx)
                /\ \/ idx = {} /\ entry.points = <<>>
                   \/ \E lo, hi \in 1..Len(tel) :
                         idx = lo..hi /\ IsRunOf(entry.points, tel, lo, hi)

\* a returned dictionary with a middle sector that starts after the lap's first
\* sample and ends before its last, and with a sector of another circuit
C12_Witness ==
    /\ gpc = "returned"
    /\ \E key \in DOMAIN sector_dict :
          LET entry == sector_dict[key]
              tel   == PickFastest(SessionOfEvent[schedule[entry.event_index + 1]]).tel
          IN  /\ entry.sector = 2
              /\ Len(entry.points) >= 2
              /\ \E lo \in 2..(Len(tel) - 2) : \E hi \in (lo + 1)..(Len(tel) - 1) :
                    IsRunOf(entry.points, tel, lo, hi)
    /\ \E k1, k2 \in DOMAIN sector_dict :
          sector_dict[k1].event_index # sector_dict[k2].event_index

----------------------------------------------------------------------------
(* More of the track composer, checked under SpecMain *)

\* the points of the sector at position k of the track being composed
PointsOf(k) == sector_dict[sector_order[k]].points

\* Is position k of the track a degenerate input: a sector of fewer than two
\* points, an appended sector whose first two points coincide, or a sector
\* whose last two points coincide and that another sector is appended to.
DegenerateAt(k) ==
    \/ Len(PointsOf(k)) < 2
    \/ k >= 2 /\ PointsOf(k)[1] = PointsOf(k)[2]
    \/ k < TrackLen /\ PointsOf(k)[Len(PointsOf(k)) - 1] = PointsOf(k)[Len(PointsOf(k))]

\* C13: a sector with fewer than 2 points, or coincident points that give a
\* zero-length direction vector, aborts the composition with an arithmetic
\* fault: the composer never completes a track, and never renders a composite,
\* that has such a degenerate input.
C13_DegenerateInputAborts ==
    mpc = "render" => \A k \in 1..TrackLen : ~DegenerateAt(k)

\* the number of points the sectors before position k of the track have
RECURSIVE PointsBefore(_)
PointsBefore(k) == IF k <= 1 THEN 0 ELSE PointsBefore(k - 1) + Len(PointsOf(k - 1))

\* the composite holds the first i sectors of the track
Composing == mpc \in {"compose", "render"} /\ i >= 1

\* C14: after every composition step the label sequence c is as long as the
\* composite point sequence (x_all, y_all), and the label at each position
\* identifies the source circuit (event_index + 1) of the sector that
\* contributed the point at that position.
C14_LabelsParallel ==
    Composing =>
        /\ Len(c) = Len(x_all)
        /\ Len(c) = Len(y_all)
        /\ Len(c) = PointsBefore(i + 1)
        /\ \A k \in 1..i : \A j \in 1..Len(PointsOf(k)) :
              c[PointsBefore(k) + j] = sector_dict[sector_order[k]].event_index + 1

\* a completed track whose points come from two circuits, a sector of the
\* second circuit composed before one of the first
C14_Witness ==
    /\ mpc = "render" /\ i = TrackLen
    /\ c # <<>>
    /\ \E p \in 1..Len(c) : \E q \in (p + 1)..Len(c) : c[p] = 2 /\ c[q] = 1

----------------------------------------------------------------------------
(* make_tables.py, checked under SpecSql *)

\* the command line is about to call createDatabase()
CallsCreateDatabase == spc = "create" /\ args.create_database = TRUE

\* C16: createDatabase returns 1 if it created a new database, and 0 both when
\* the database already existed and when an error occurred (a failed
\* connection or a failed CREATE DATABASE); no exception reaches the caller.
C16_CreateDatabaseReturns ==
    [][CallsCreateDatabase =>
            /\ spc' = "initiate"
            /\ error' = ""
            /\ create_ret' = IF /\ server.up
                                /\ Lower(db_name) \notin server.databases
                                /\ server.may_create
                             THEN <<1>> ELSE <<0>>
            /\ create_ret' = <<1>> <=> server'.databases # server.databases]_vars

\* the constructor is about to call enableCache(path) with the path typed after -s
EnablesCacheAt(path) ==
    /\ spc = "construct"
    /\ args.disable_cache = FALSE
    /\ args.cache_path = path

\* C17: enableCache, given an explicit string path different from the f1_cache
\* environment value, sets cache_dir to that path and returns when the folder
\* exists, and raises an error only when the folder does not exist.
C17_ExplicitCachePath ==
    [][\A path \in CachePaths :
          (EnablesCacheAt(path) /\ environ # <<path>>) =>
              IF path \in folders
              THEN spc' = "create" /\ cache_dir' = <<path>> /\ cache_enabled'
              ELSE spc' = "raised"]_vars

\* C18: enableCache with path=None uses the f1_cache variable's folder when
\* the variable is set and the folder exists, and in every other case
\* (variable unset, or folder missing) falls back to './f1_cache' in the
\* current directory, creating it if absent, without raising (the current
\* directory being writable).
C18_DefaultCachePath ==
    [][(EnablesCacheAt("") /\ mkdir_ok) =>
            /\ spc' = "create"
            /\ error' = ""
            /\ cache_enabled'
            /\ cache_dir' = IF environ # <<>> /\ environ[1] \in folders
                            THEN environ ELSE <<CwdCache>>
            /\ cache_dir'[1] \in folders'
            /\ folders' \in {folders, folders \cup {CwdCache}}]_vars

\* C19: '-cdb False' on the command line skips the database creation:
\* createDatabase is not called and the database is assumed to exist; only
\* '-cdb True' or the default calls createDatabase.
C19_CdbFalseSkipsCreation ==
    [][(spc = "create" /\ argv.cdb = <<"False">>) =>
            /\ spc' = "initiate"
            /\ create_ret' = <<>>
            /\ server' = server
            /\ db_name' = db_name
            /\ sql_printed' = Append(sql_printed, "Assuming database exists.")]_vars

\* C20: the database name is forced to lowercase before any use: every
\* connection that table creation and population open targets the lowercase
\* name, whether or not createDatabase was called first.
C20_ConnectionsLowercase ==
    \A k \in 1..Len(connections) : connections[k] = Lower(args.db_name)

----------------------------------------------------------------------------
(* formattedLapTelem, checked under SpecTelem *)

\* C21: formattedLapTelem returns only laps that have neither a pit-in nor a
\* pit-out time and that belong to the requested drivers (all the session's
\* drivers when drivers is None): no lap with a pit stop and no lap of an
\* unrequested driver is in the result.
C21_OnlyCleanLapsOfRequestedDrivers ==
    [][tpc = "call" =>
            \A k \in 1..Len(telem_ret') :
                /\ ~telem_ret'[k].PitInTime
                /\ ~telem_ret'[k].PitOutTime
                /\ telem_ret'[k].Driver \in
                       (IF drivers.some THEN Range(drivers.arr) ELSE Range(all_drivers))]_vars

----------------------------------------------------------------------------
(* More of getSectorDict, checked under SpecDict *)

\* getSectorDict is called without selected_events and selected_sectors
CalledWithoutSelection == gpc = "call" /\ ~selected_sectors.some /\ ~selected_events.some

\* C22: getSectorDict called without selected_events/selected_sectors selects
\* exactly min(limit_sectors, 3*len(schedule)) pairwise distinct
\* (event_index, sector) pairs, each with event_index in 0..len(schedule)-1 and
\* sector in 1..3, and the returned dictionary has exactly that many entries.
C22_RandomSelectionCount ==
    [][CalledWithoutSelection =>
            LET count == Min(limit_sectors, 3 * Len(schedule))
            IN  /\ DistinctValidPairs(selected_events', selected_sectors', count, schedule)
                /\ gpc' = "returned" => Cardinality(DOMAIN sector_dict') = count]_vars

\* a call without selection on a season of two events has returned four of
\* the six sectors, and another all six under the default limit
C22_Witness ==
    /\ gpc = "returned"
    /\ printed # <<>> /\ printed[1] = "Selecting sectors."
    /\ Len(schedule) = 2
    /\ Cardinality(DOMAIN sector_dict) = 4
    /\ limit_sectors = 4

----------------------------------------------------------------------------
(* More of the track composer, checked under SpecMain *)

\* C23: the duplicate junction point is always included: after composing the
\* sectors S1..Sk in order the composite has exactly |S1| + ... + |Sk| points,
\* and for every j > 1 the point at the start of Sj's block equals the point
\* immediately before it.
C23_JunctionPointKept ==
    Composing =>
        /\ Len(x_all) = PointsBefore(i + 1)
        /\ Len(y_all) = PointsBefore(i + 1)
        /\ \A j \in 2..i :
              /\ FEq(x_all[PointsBefore(j) + 1], x_all[PointsBefore(j)])
              /\ FEq(y_all[PointsBefore(j) + 1], y_all[PointsBefore(j)])

----------------------------------------------------------------------------
(* More of make_tables.py, checked under SpecSql *)

\* every table of the sequence comes after the tables it refers to
AfterReferences(order) ==
    \A k \in 1..Len(order) : References[order[k]] \subseteq {order[j] : j \in 1..(k - 1)}

\* C24: in both initiateAllTables and populateAllTables a table is created or
\* populated only after every table it references by foreign key or looks up
\* in its INSERT sub-select: countries before tracks, tracks and countries
\* before events, teams before drivers, events and drivers before results and
\* laps.
C24_TablesAfterTheirReferences ==
    /\ AfterReferences(tables)
    /\ AfterReferences(populated)
    /\ spc = "initiate" => tables \in {<<>>, SubSeq(InitiateOrder, 1, table_index - 1)}
    /\ spc = "populate" => populated = SubSeq(PopulateOrder, 1, table_index - 1)

\* a run that created and populated all seven tables
C24_Witness ==
    /\ spc = "done"
    /\ Len(tables) = 7
    /\ Len(populated) = 7
    /\ tables[7] = "laps" /\ populated[7] = "laps"

----------------------------------------------------------------------------
(* The frame of a composition step, checked under SpecMain *)

\* arr is the start of longer
IsPrefix(arr, longer) == Len(arr) <= Len(longer) /\ SubSeq(longer, 1, Len(arr)) = arr

\* C25: a composition step leaves what it does not append unchanged: the
\* points already in the composite keep their coordinates and order, and the
\* entries of the sector dictionary (the untransformed points of every sector,
\* also of the one being appended) are never modified, so that composing one
\* track does not affect a later track; the finished composite is not changed
\* by rendering.
C25_StepFrame ==
    [][(mpc \in {"compose", "render"}) =>
            /\ sector_dict' = sector_dict
            /\ sector_orders' = sector_orders
            /\ i > 0 => /\ IsPrefix(x_all, x_all')
                        /\ IsPrefix(y_all, y_all')
                        /\ IsPrefix(c, c')
            /\ mpc = "render" => composite' = composite]_vars

\* a third sector was appended turned and moved, its dictionary entry is as it
\* was, and the composite still starts with the first sector
C25_Witness ==
    /\ AfterAppend /\ i = 3
    /\ angle_rad \in {F(1), F(2), F(-1)}
    /\ x_rotated # XFromFirst(PointsOf(3)) /\ y_rotated # YFromFirst(PointsOf(3))
    /\ IsPrefix(XFromFirst(PointsOf(1)), x_all)
    /\ IsPrefix(YFromFirst(PointsOf(1)), y_all)

\* has the vector Euclidean norm 1
UnitNorm(v) == FEq(FAdd(FMul(v[1], v[1]), FMul(v[2], v[2])), F(1))

\* a point with finite coordinates
Finite(p) == ~IsNaN(p[1]) /\ ~IsNaN(p[2])

\* C26: every direction vector the composer uses, the composite's trailing
\* vector and the new sector's entry vector, has Euclidean norm 1 whenever the
\* two points it is computed from are distinct (points with finite
\* coordinates).
C26_UnitDirectionVectors ==
    AfterAppend =>
        LET S      == PointsOf(i)
            before == Len(x_all) - Len(x_rotated)
            p      == <<x_all[before - 1], y_all[before - 1]>>
            q      == <<x_all[before], y_all[before]>>
        IN  /\ (Finite(p) /\ Finite(q) /\ p # q) => UnitNorm(old_vector)
            /\ S[1] # S[2] => UnitNorm(new_vector)

\* both vectors come from segments longer than 1 and along different axes
C26_Witness ==
    /\ AfterAppend
    /\ LET S      == PointsOf(i)
           before == Len(x_all) - Len(x_rotated)
       IN  /\ Abs(S[2][1] - S[1][1]) + Abs(S[2][2] - S[1][2]) >= 2
           /\ Finite(<<x_all[before], y_all[before]>>)
           /\ Finite(<<x_all[before - 1], y_all[before - 1]>>)
           /\ Abs(x_all[before].n - x_all[before - 1].n)
                 + Abs(y_all[before].n - y_all[before - 1].n) >= 2
    /\ old_vector = <<F(0), F(-1)>>
    /\ new_vector = <<F(-1), F(0)>>

\* the selected (event_index, sector) pairs whose event is in the schedule
SelectedPairs ==
    IF selected_events.some /\ selected_sectors.some
    THEN {<<selected_events.arr[k], selected_sectors.arr[k]>> :
              k \in {j \in 1..Len(selected_events.arr) :
                         selected_events.arr[j] \in 0..(Len(schedule) - 1)}}
    ELSE {}

\* C27: the dictionary getSectorDict returns has exactly one entry per
\* distinct selected (event_index, sector) pair whose event is in the
\* schedule, keyed by event_index*3 + sector; distinct pairs have distinct
\* keys, and each entry's 'sector' and 'event_index' are the pair of its key.
C27_OneEntryPerSelectedPair ==
    gpc = "returned" =>
        /\ DOMAIN sector_dict = {p[1] * 3 + p[2] : p \in SelectedPairs}
        /\ Cardinality(DOMAIN sector_dict) = Cardinality(SelectedPairs)
        /\ \A p \in SelectedPairs, q \in SelectedPairs :
               p # q => p[1] * 3 + p[2] # q[1] * 3 + q[2]
        /\ \A p \in SelectedPairs :
               /\ sector_dict[p[1] * 3 + p[2]].event_index = p[1]
               /\ sector_dict[p[1] * 3 + p[2]].sector = p[2]

\* a selection that names the same pair twice returns one entry
C27_Witness ==
    /\ gpc = "returned"
    /\ selected_events.some /\ selected_sectors.some
    /\ Len(selected_events.arr) = 2
    /\ selected_events.arr[1] = selected_events.arr[2]
    /\ selected_sectors.arr[1] = selected_sectors.arr[2]
    /\ SelectedPairs = {<<1, 3>>}
    /\ DOMAIN sector_dict = {6}

=============================================================================
